---- MODULE Spec2Model ----
(***************************************************************************)
(* Blob transaction construction of pkg/rpc/tx_blob.go:                    *)
(* EthClient.TransactBlobTx, EthClient.createBlobTx, EthClient.getNonce    *)
(* and MakeSidecarWithSingleBlob.                                          *)
(*                                                                         *)
(* Every call of TransactBlobTx is a process p with its own arguments,     *)
(* program counter, locals, result and the list of the calls it has made   *)
(* on the client and on the signer.  A step of the model is one call on    *)
(* the client or the signer with the code that handles its answer, or one  *)
(* block of the code between two such calls.  The answers of the client    *)
(* and of the signer are chosen nondeterministically.                      *)
(***************************************************************************)
EXTENDS Integers, Sequences, FiniteSets, TLC

(***************************************************************************)
(* Bounds of the model.  Widths are scaled: Uint256Mod stands for 2^256    *)
(* and Uint64Mod for 2^64.                                                 *)
(***************************************************************************)
Uint256Mod == 64

Uint64Mod == 50

MaxBaseFee == 1

MaxTip == 1

MaxPendingNonce == 1

(* params.BlobTxBytesPerFieldElement * params.BlobTxFieldElementsPerBlob,  *)
(* 128 KiB; declared in pkg/rpc/utils.go.                                  *)
BlobBytes == 131072

(* The excess blob gas used when the header carries none. *)
DefaultExcessBlobGas == 100066

(* params.BlobTxMinBlobGasprice and params.BlobTxBlobGaspriceUpdateFraction *)
(* of go-ethereum, as used by eip4844.CalcBlobFee.                          *)
MinBlobGasprice == 1

BlobGaspriceUpdateFraction == 3338477

(***************************************************************************)
(* Optional values: a nil pointer is None, a set one is Some(v).           *)
(***************************************************************************)
None == <<>>

Some(v) == <<v>>

IsNil(o) == o = None

Val(o) == o[1]

Abs(x) == IF x < 0 THEN -x ELSE x

Procs == {1, 2}

(***************************************************************************)
(* The arguments of a call: opts (a bind.TransactOpts), contract, input and *)
(* blobData.  A payload is its length and whether every field element of   *)
(* it is canonical (the kzg library rejects a blob that has one that is    *)
(* not).                                                                   *)
(***************************************************************************)
BigInts == {-5, 5, 10, Uint256Mod}

OptBigInts == {None} \cup {Some(v) : v \in BigInts}

Nonces == {None, Some(42), Some(Uint64Mod + 42)}

GasLimits == {0, 21000}

Payloads ==
    { [len |-> 0, canonical |-> TRUE],
      [len |-> 1000, canonical |-> TRUE],
      [len |-> BlobBytes, canonical |-> FALSE],
      [len |-> BlobBytes, canonical |-> TRUE],
      [len |-> BlobBytes + 1, canonical |-> TRUE],
      [len |-> 2 * BlobBytes, canonical |-> TRUE] }

Intents ==
    [ Signer    : BOOLEAN,
      From      : {"from"},
      GasTipCap : OptBigInts,
      GasFeeCap : OptBigInts,
      GasLimit  : GasLimits,
      Nonce     : Nonces,
      Value     : {None, Some(-1)},
      NoSend    : BOOLEAN,
      contract  : {None, Some("to")},
      input     : {"input"},
      blobData  : Payloads ]

IdleIntent ==
    [ Signer |-> FALSE, From |-> "from", GasTipCap |-> None, GasFeeCap |-> None,
      GasLimit |-> 0, Nonce |-> None, Value |-> None, NoSend |-> TRUE,
      contract |-> None, input |-> "input",
      blobData |-> [len |-> 1000, canonical |-> TRUE] ]

(***************************************************************************)
(* What the client may answer.                                             *)
(***************************************************************************)
Headers ==
    [ BaseFee       : 0..MaxBaseFee,
      ExcessBlobGas : {None, Some(3 * BlobGaspriceUpdateFraction)} ]

SuggestedTips == 0..MaxTip

GasEstimates == {30000}

PendingNonces == 0..MaxPendingNonce

ChainIDs == {Some(1)}

(***************************************************************************)
(* Errors.                                                                 *)
(***************************************************************************)
Err(kind, text, args) == [kind |-> kind, text |-> text, args |-> args]

NoSigner == Err("NoSigner", "no signer to authorize the transaction with", <<>>)

CapabilityError(op) == Err(op, "error returned by the callee", <<>>)

VARIABLES
    intent,     \* intent[p]: the arguments of call p, read only
    pc,         \* pc[p]: where call p stands
    frame,      \* frame[p]: the locals of createBlobTx in call p
    ret,        \* ret[p]: what call p returned, <<tx, err>> as a record
    calls,      \* calls[p]: the calls call p has issued, in order
    boot        \* the call of the fakeprover's New and the server it starts

vars == <<intent, pc, frame, ret, calls, boot>>


(***************************************************************************)
(* Library functions the code calls.                                       *)
(***************************************************************************)

(* uint256.Int.SetFromBig: the low 256 bits of |b|, negated modulo 2^256   *)
(* when b is negative; overflow is reported when |b| needs more bits.      *)
SetFromBig(b) == [val |-> b % Uint256Mod, overflow |-> Abs(b) >= Uint256Mod]

(* uint256.MustFromBig panics exactly when SetFromBig reports overflow. *)
MustFromBigPanics(b) == SetFromBig(b).overflow

MustFromBig(b) == SetFromBig(b).val

(* big.Int.Uint64: the low 64 bits of |x|. *)
Uint64(x) == Abs(x) % Uint64Mod

(* Quotient and remainder of a * n by d, by doubling, so that no          *)
(* intermediate value leaves the range of the model checker's integers.    *)
RECURSIVE MulDivMod(_, _, _)
MulDivMod(a, n, d) ==
    IF n = 0
    THEN [q |-> 0, r |-> 0]
    ELSE LET half    == MulDivMod(a, n \div 2, d)
             doubled == [q |-> 2 * half.q + (2 * half.r) \div d, r |-> (2 * half.r) % d]
         IN  IF n % 2 = 0
             THEN doubled
             ELSE [q |-> doubled.q + (a \div d) + (doubled.r + (a % d)) \div d,
                   r |-> (doubled.r + (a % d)) % d]

(* floor(a * n / d): big.Int Mul followed by big.Int Div. *)
MulDiv(a, n, d) == MulDivMod(a, n, d).q

RECURSIVE fakeExponentialLoop(_, _, _, _, _)
fakeExponentialLoop(i, output, accum, numerator, denominator) ==
    IF accum > 0
    THEN fakeExponentialLoop(i + 1, output + accum,
                             MulDiv(accum, numerator, denominator) \div i,
                             numerator, denominator)
    ELSE output \div denominator

(* eip4844.fakeExponential: factor times e to the numerator / denominator. *)
fakeExponential(factor, numerator, denominator) ==
    fakeExponentialLoop(1, 0, factor * denominator, numerator, denominator)

(* eip4844.CalcBlobFee *)
CalcBlobFee(excessBlobGas) ==
    fakeExponential(MinBlobGasprice, excessBlobGas, BlobGaspriceUpdateFraction)

(* kzg4844.BlobToCommitment, kzg4844.ComputeBlobProof and the hash of a    *)
(* commitment are functions of their arguments; the first two fail on a    *)
(* blob with a field element that is not canonical.                        *)
BlobOf_Unpadded(data) == [payloadLen |-> data.len, size |-> data.len, canonical |-> data.canonical]

BlobOf(data) == [payloadLen |-> data.len, size |-> BlobBytes, canonical |-> data.canonical]

BlobToCommitment(blob) == [commitmentOf |-> blob]

ComputeBlobProof(blob, commitment) == [proofOf |-> blob, for |-> commitment]

CalcBlobHashV1(commitment) == [hashOf |-> commitment]

(* types.BlobTxSidecar.BlobHashes: one hash for each commitment. *)
BlobHashes(sidecar) ==
    [i \in 1..Len(sidecar.Commitments) |-> CalcBlobHashV1(sidecar.Commitments[i])]

(* The error of line 160. *)
PayloadTooLarge == Err("PayloadTooLarge", "data is bigger than 128k", <<>>)

(* MakeSidecarWithSingleBlob with the length of the data in its error. *)
MakeSidecarWithSingleBlob_ReportsLength(data) ==
    IF data.len > BlobBytes
    THEN [sidecar |-> None,
          err |-> Some(Err("PayloadTooLarge", "data is bigger than 128k", <<data.len>>))]
    ELSE LET blob == BlobOf(data)
             commitment == BlobToCommitment(blob)
         IN  IF ~data.canonical
             THEN [sidecar |-> None, err |-> Some(CapabilityError("kzg4844"))]
             ELSE [sidecar |-> Some([Blobs       |-> <<blob>>,
                                     Commitments |-> <<commitment>>,
                                     Proofs      |-> <<ComputeBlobProof(blob, commitment)>>]),
                   err |-> None]

(* MakeSidecarWithSingleBlob with a length test that is off by one. *)
MakeSidecarWithSingleBlob_OffByOne(data) ==
    IF data.len > BlobBytes + 1
    THEN [sidecar |-> None, err |-> Some(PayloadTooLarge)]
    ELSE LET blob == BlobOf(data)
             commitment == BlobToCommitment(blob)
         IN  IF ~data.canonical
             THEN [sidecar |-> None, err |-> Some(CapabilityError("kzg4844"))]
             ELSE [sidecar |-> Some([Blobs       |-> <<blob>>,
                                     Commitments |-> <<commitment>>,
                                     Proofs      |-> <<ComputeBlobProof(blob, commitment)>>]),
                   err |-> None]

(***************************************************************************)
(* MakeSidecarWithSingleBlob: <<sidecar, err>> as a record.                *)
(***************************************************************************)
MakeSidecarWithSingleBlob(data) ==
    IF data.len > BlobBytes
    THEN [sidecar |-> None, err |-> Some(PayloadTooLarge)]
    ELSE LET blob == BlobOf(data)
             commitment == BlobToCommitment(blob)
         IN  IF ~data.canonical
             THEN [sidecar |-> None, err |-> Some(CapabilityError("kzg4844"))]
             ELSE [sidecar |-> Some([Blobs       |-> <<blob>>,
                                     Commitments |-> <<commitment>>,
                                     Proofs      |-> <<ComputeBlobProof(blob, commitment)>>]),
                   err |-> None]

(***************************************************************************)
(* Steps of a call.                                                        *)
(***************************************************************************)
NoFrame ==
    [ header |-> None, gasTipCap |-> None, gasFeeCap |-> None, gasLimit |-> None,
      nonce |-> None, chainID |-> None, sidecar |-> None, rawTx |-> None,
      signedTx |-> None ]

NoResult == [tx |-> None, err |-> None]

Goto(p, label) == pc' = [pc EXCEPT ![p] = label]

Return(p, tx, err) ==
    /\ pc' = [pc EXCEPT ![p] = "done"]
    /\ ret' = [ret EXCEPT ![p] = [tx |-> tx, err |-> err]]

Panic(p) ==
    /\ pc' = [pc EXCEPT ![p] = "panic"]
    /\ UNCHANGED ret

(* A call on the client or on the signer, with its argument and whether   *)
(* it returned without error.                                              *)
Issue(p, op, arg, ok) ==
    calls' = [calls EXCEPT ![p] = Append(@, [op |-> op, arg |-> arg, ok |-> ok])]

(* TransactBlobTx, lines 24-26: no signer. *)
SignerMissing(p) ==
    /\ pc[p] = "CheckSigner"
    /\ ~intent[p].Signer
    /\ Return(p, None, Some(NoSigner))
    /\ UNCHANGED <<intent, boot, frame, calls>>

(* SignerPresent without the test of line 24. *)
SignerPresent_Unchecked(p) ==
    /\ pc[p] = "CheckSigner"
    /\ Goto(p, "HeaderByNumber")
    /\ UNCHANGED <<intent, boot, frame, ret, calls>>

(* TransactBlobTx, lines 24-28: a signer is there, createBlobTx is entered. *)
SignerPresent(p) ==
    /\ pc[p] = "CheckSigner"
    /\ intent[p].Signer
    /\ Goto(p, "HeaderByNumber")
    /\ UNCHANGED <<intent, boot, frame, ret, calls>>

(* HeaderByNumber asking again when the client fails. *)
HeaderByNumber_Retries(p) ==
    /\ pc[p] = "HeaderByNumber"
    /\ \/ /\ Issue(p, "HeaderByNumber", None, FALSE)
          /\ UNCHANGED <<pc, ret, frame>>
       \/ /\ Issue(p, "HeaderByNumber", None, TRUE)
          /\ \E h \in Headers :
               /\ frame' = [frame EXCEPT ![p].header = Some(h)]
               /\ Goto(p, "TipCap")
               /\ UNCHANGED ret
    /\ UNCHANGED <<intent, boot, boot>>

(* createBlobTx, lines 51-54. *)
HeaderByNumber(p) ==
    /\ pc[p] = "HeaderByNumber"
    /\ \/ /\ Issue(p, "HeaderByNumber", None, FALSE)
          /\ Return(p, None, Some(CapabilityError("HeaderByNumber")))
          /\ UNCHANGED frame
       \/ /\ Issue(p, "HeaderByNumber", None, TRUE)
          /\ \E h \in Headers :
               /\ frame' = [frame EXCEPT ![p].header = Some(h)]
               /\ Goto(p, "TipCap")
               /\ UNCHANGED ret
    /\ UNCHANGED <<intent, boot, boot>>

(* createBlobTx, lines 56-57: the tip cap of the options is used. *)
ExplicitTipCap(p) ==
    /\ pc[p] = "TipCap"
    /\ ~IsNil(intent[p].GasTipCap)
    /\ frame' = [frame EXCEPT ![p].gasTipCap = intent[p].GasTipCap]
    /\ Goto(p, "FeeCap")
    /\ UNCHANGED <<intent, boot, ret, calls>>

(* createBlobTx, lines 56-63: the tip cap is asked from the client. *)
SuggestGasTipCap(p) ==
    /\ pc[p] = "TipCap"
    /\ IsNil(intent[p].GasTipCap)
    /\ \/ /\ Issue(p, "SuggestGasTipCap", None, FALSE)
          /\ Return(p, None, Some(CapabilityError("SuggestGasTipCap")))
          /\ UNCHANGED frame
       \/ /\ Issue(p, "SuggestGasTipCap", None, TRUE)
          /\ \E tip \in SuggestedTips :
               /\ frame' = [frame EXCEPT ![p].gasTipCap = Some(tip)]
               /\ Goto(p, "FeeCap")
               /\ UNCHANGED ret
    /\ UNCHANGED <<intent, boot, boot>>

(* The error of line 73; it prints the fee cap and then the tip cap. *)
InvalidFeeOrdering(gasFeeCap, gasTipCap) ==
    Err("InvalidFeeOrdering", "maxFeePerGas (%v) < maxPriorityFeePerGas (%v)",
        <<gasFeeCap, gasTipCap>>)

(* FeeOrderingFails without the comparison: the caps are never rejected. *)
FeeOrderingFails_Never(gasFeeCap, gasTipCap) == FALSE

(* FeeOrderingFails with the comparison turned round. *)
FeeOrderingFails_Reversed(gasFeeCap, gasTipCap) == gasFeeCap > gasTipCap

(* The comparison of line 72. *)
FeeOrderingFails(gasFeeCap, gasTipCap) == gasFeeCap < gasTipCap

(* The default fee cap with the base fee counted once. *)
DefaultFeeCap_BaseFeeOnce(gasTipCap, BaseFee) == gasTipCap + BaseFee

(* The default fee cap of lines 67-70: the tip cap plus twice the base fee. *)
DefaultFeeCap(gasTipCap, BaseFee) == gasTipCap + BaseFee * 2

(* ResolveFeeCap computing the default fee cap in place, in the tip cap of *)
(* the options: gasTipCap.Add(gasTipCap, ...) instead of new(big.Int).Add.  *)
ResolveFeeCap_AddsInPlace(p) ==
    /\ pc[p] = "FeeCap"
    /\ LET gasTipCap == Val(frame[p].gasTipCap)
           BaseFee   == Val(frame[p].header).BaseFee
           gasFeeCap == IF IsNil(intent[p].GasFeeCap)
                        THEN DefaultFeeCap(gasTipCap, BaseFee)
                        ELSE Val(intent[p].GasFeeCap)
       IN  /\ intent' = IF IsNil(intent[p].GasFeeCap) /\ ~IsNil(intent[p].GasTipCap)
                        THEN [intent EXCEPT ![p].GasTipCap = Some(gasFeeCap)]
                        ELSE intent
           /\ IF FeeOrderingFails(gasFeeCap, gasTipCap)
              THEN /\ Return(p, None, Some(InvalidFeeOrdering(gasFeeCap, gasTipCap)))
                   /\ UNCHANGED frame
              ELSE /\ frame' = [frame EXCEPT ![p].gasFeeCap = Some(gasFeeCap)]
                   /\ Goto(p, "GasLimit")
                   /\ UNCHANGED ret
    /\ UNCHANGED <<calls, boot>>

(* createBlobTx, lines 65-74: the fee cap and the check of its order. *)
ResolveFeeCap(p) ==
    /\ pc[p] = "FeeCap"
    /\ LET gasTipCap == Val(frame[p].gasTipCap)
           BaseFee   == Val(frame[p].header).BaseFee
           gasFeeCap == IF IsNil(intent[p].GasFeeCap)
                        THEN DefaultFeeCap(gasTipCap, BaseFee)
                        ELSE Val(intent[p].GasFeeCap)
       IN  IF FeeOrderingFails(gasFeeCap, gasTipCap)
           THEN /\ Return(p, None, Some(InvalidFeeOrdering(gasFeeCap, gasTipCap)))
                /\ UNCHANGED frame
           ELSE /\ frame' = [frame EXCEPT ![p].gasFeeCap = Some(gasFeeCap)]
                /\ Goto(p, "GasLimit")
                /\ UNCHANGED ret
    /\ UNCHANGED <<intent, boot, calls>>

(* createBlobTx, lines 76-77: the gas limit of the options is used. *)
ExplicitGasLimit(p) ==
    /\ pc[p] = "GasLimit"
    /\ intent[p].GasLimit # 0
    /\ frame' = [frame EXCEPT ![p].gasLimit = Some(intent[p].GasLimit)]
    /\ Goto(p, "Nonce")
    /\ UNCHANGED <<intent, boot, ret, calls>>

(* The ethereum.CallMsg of lines 79-87. *)
CallMsg(p) ==
    [ From      |-> intent[p].From,
      To        |-> intent[p].contract,
      GasPrice  |-> None,
      GasTipCap |-> frame[p].gasTipCap,
      GasFeeCap |-> frame[p].gasFeeCap,
      Value     |-> None,
      Data      |-> intent[p].input ]

(* createBlobTx, lines 76-91: the gas limit is estimated by the client. *)
EstimateGas(p) ==
    /\ pc[p] = "GasLimit"
    /\ intent[p].GasLimit = 0
    /\ \/ /\ Issue(p, "EstimateGas", CallMsg(p), FALSE)
          /\ Return(p, None, Some(CapabilityError("EstimateGas")))
          /\ UNCHANGED frame
       \/ /\ Issue(p, "EstimateGas", CallMsg(p), TRUE)
          /\ \E gas \in GasEstimates :
               /\ frame' = [frame EXCEPT ![p].gasLimit = Some(gas)]
               /\ Goto(p, "Nonce")
               /\ UNCHANGED ret
    /\ UNCHANGED <<intent, boot, boot>>

(* createBlobTx, lines 95 and 100-102: the nonce of the options is used. *)
ExplicitNonce(p) ==
    /\ pc[p] = "Nonce"
    /\ ~IsNil(intent[p].Nonce)
    /\ frame' = [frame EXCEPT ![p].nonce = Some(Uint64(Val(intent[p].Nonce)))]
    /\ Goto(p, "ChainID")
    /\ UNCHANGED <<intent, boot, ret, calls>>

(* createBlobTx, lines 95-99, and getNonce: the pending nonce of the       *)
(* sender is asked from the client.                                        *)
getNonce(p) ==
    /\ pc[p] = "Nonce"
    /\ IsNil(intent[p].Nonce)
    /\ \/ /\ Issue(p, "PendingNonceAt", intent[p].From, FALSE)
          /\ Return(p, None, Some(CapabilityError("PendingNonceAt")))
          /\ UNCHANGED frame
       \/ /\ Issue(p, "PendingNonceAt", intent[p].From, TRUE)
          /\ \E n \in PendingNonces :
               /\ frame' = [frame EXCEPT ![p].nonce = Some(n)]
               /\ Goto(p, "ChainID")
               /\ UNCHANGED ret
    /\ UNCHANGED <<intent, boot, boot>>

(* createBlobTx, lines 105-108. *)
ChainID(p) ==
    /\ pc[p] = "ChainID"
    /\ \/ /\ Issue(p, "ChainID", None, FALSE)
          /\ Return(p, None, Some(CapabilityError("ChainID")))
          /\ UNCHANGED frame
       \/ /\ Issue(p, "ChainID", None, TRUE)
          /\ \E id \in ChainIDs :
               /\ frame' = [frame EXCEPT ![p].chainID = id]
               /\ Goto(p, "Sidecar")
               /\ UNCHANGED ret
    /\ UNCHANGED <<intent, boot, boot>>

(* createBlobTx, lines 111-115. *)
MakeSidecar(p) ==
    /\ pc[p] = "Sidecar"
    /\ LET made == MakeSidecarWithSingleBlob(intent[p].blobData)
       IN  IF ~IsNil(made.err)
           THEN /\ Return(p, None, made.err)
                /\ UNCHANGED frame
           ELSE /\ frame' = [frame EXCEPT ![p].sidecar = made.sidecar]
                /\ Goto(p, "Assemble")
                /\ UNCHANGED ret
    /\ UNCHANGED <<intent, boot, calls>>

(* blobFeeCap without lines 119-121: the header is not looked at. *)
blobFeeCap_IgnoresHeader(header) == DefaultExcessBlobGas

(* The local blobFeeCap of lines 117-121: the excess blob gas of the       *)
(* header, or the default when the header has none.                        *)
blobFeeCap(header) ==
    IF ~IsNil(header.ExcessBlobGas)
    THEN Val(header.ExcessBlobGas)
    ELSE DefaultExcessBlobGas

(* The types.BlobTx of lines 117-146. *)
BlobTx(p) ==
    LET header     == Val(frame[p].header)
        value      == IF ~IsNil(intent[p].Value)
                      THEN SetFromBig(Val(intent[p].Value)).val
                      ELSE 0
        addr       == IF ~IsNil(intent[p].contract)
                      THEN Val(intent[p].contract)
                      ELSE "0x0"
        sidecar    == Val(frame[p].sidecar)
    IN  [ ChainID    |-> Uint64(Val(frame[p].chainID)),
          Nonce      |-> Val(frame[p].nonce),
          GasTipCap  |-> MustFromBig(Val(frame[p].gasTipCap)),
          GasFeeCap  |-> MustFromBig(Val(frame[p].gasFeeCap)),
          Gas        |-> Val(frame[p].gasLimit),
          To         |-> addr,
          Value      |-> value,
          Data       |-> intent[p].input,
          BlobFeeCap |-> MustFromBig(CalcBlobFee(blobFeeCap(header))),
          BlobHashes |-> BlobHashes(sidecar),
          Sidecar    |-> sidecar,
          signed     |-> FALSE ]

(* createBlobTx, lines 117-147, and the return to TransactBlobTx, 28-31.   *)
(* uint256.MustFromBig panics on a cap that does not fit 256 bits.         *)
Assemble(p) ==
    /\ pc[p] = "Assemble"
    /\ IF \/ MustFromBigPanics(Val(frame[p].gasTipCap))
          \/ MustFromBigPanics(Val(frame[p].gasFeeCap))
          \/ MustFromBigPanics(CalcBlobFee(blobFeeCap(Val(frame[p].header))))
       THEN Panic(p) /\ UNCHANGED frame
       ELSE /\ frame' = [frame EXCEPT ![p].rawTx = Some(BlobTx(p))]
            /\ Goto(p, "Sign")
            /\ UNCHANGED ret
    /\ UNCHANGED <<intent, boot, calls>>

(* What the signer returns for a transaction. *)
WithSignature(tx) == [tx EXCEPT !.signed = TRUE]

(* Sign handing the unsigned transaction back when the signer fails. *)
Sign_ReturnsRawTx(p) ==
    /\ pc[p] = "Sign"
    /\ \/ /\ Issue(p, "Signer", frame[p].rawTx, FALSE)
          /\ Return(p, frame[p].rawTx, Some(CapabilityError("Signer")))
          /\ UNCHANGED frame
       \/ /\ Issue(p, "Signer", frame[p].rawTx, TRUE)
          /\ frame' = [frame EXCEPT ![p].signedTx = Some(WithSignature(Val(frame[p].rawTx)))]
          /\ Goto(p, "Send")
          /\ UNCHANGED ret
    /\ UNCHANGED <<intent, boot, boot>>

(* TransactBlobTx, lines 32-35. *)
Sign(p) ==
    /\ pc[p] = "Sign"
    /\ \/ /\ Issue(p, "Signer", frame[p].rawTx, FALSE)
          /\ Return(p, None, Some(CapabilityError("Signer")))
          /\ UNCHANGED frame
       \/ /\ Issue(p, "Signer", frame[p].rawTx, TRUE)
          /\ frame' = [frame EXCEPT ![p].signedTx = Some(WithSignature(Val(frame[p].rawTx)))]
          /\ Goto(p, "Send")
          /\ UNCHANGED ret
    /\ UNCHANGED <<intent, boot, boot>>

(* TransactBlobTx, lines 36-38. *)
ReturnUnsent(p) ==
    /\ pc[p] = "Send"
    /\ intent[p].NoSend
    /\ Return(p, frame[p].signedTx, None)
    /\ UNCHANGED <<intent, boot, frame, calls>>

(* SendFailedResult handing the signed transaction back with the error. *)
SendFailedResult_KeepsTx(signedTx, err) == [tx |-> signedTx, err |-> Some(err)]

(* What TransactBlobTx returns when SendTransaction fails, line 40. *)
SendFailedResult(signedTx, err) == [tx |-> None, err |-> Some(err)]

(* SendTransaction handing the unsigned transaction to the client. *)
SendTransaction_SendsRawTx(p) ==
    /\ pc[p] = "Send"
    /\ ~intent[p].NoSend
    /\ pc' = [pc EXCEPT ![p] = "done"]
    /\ \/ /\ Issue(p, "SendTransaction", frame[p].rawTx, FALSE)
          /\ ret' = [ret EXCEPT ![p] =
                      [tx |-> None, err |-> Some(CapabilityError("SendTransaction"))]]
       \/ /\ Issue(p, "SendTransaction", frame[p].rawTx, TRUE)
          /\ ret' = [ret EXCEPT ![p] = [tx |-> frame[p].signedTx, err |-> None]]
    /\ UNCHANGED <<intent, boot, frame>>

(* SendTransaction without the test of opts.NoSend. *)
SendTransaction_IgnoresNoSend(p) ==
    /\ pc[p] = "Send"
    /\ pc' = [pc EXCEPT ![p] = "done"]
    /\ \/ /\ Issue(p, "SendTransaction", frame[p].signedTx, FALSE)
          /\ ret' = [ret EXCEPT ![p] =
                      [tx |-> None, err |-> Some(CapabilityError("SendTransaction"))]]
       \/ /\ Issue(p, "SendTransaction", frame[p].signedTx, TRUE)
          /\ ret' = [ret EXCEPT ![p] = [tx |-> frame[p].signedTx, err |-> None]]
    /\ UNCHANGED <<intent, boot, frame>>

(* TransactBlobTx, lines 36 and 39-42. *)
SendTransaction(p) ==
    /\ pc[p] = "Send"
    /\ ~intent[p].NoSend
    /\ pc' = [pc EXCEPT ![p] = "done"]
    /\ \/ /\ Issue(p, "SendTransaction", frame[p].signedTx, FALSE)
          /\ ret' = [ret EXCEPT ![p] =
                      SendFailedResult(frame[p].signedTx, CapabilityError("SendTransaction"))]
       \/ /\ Issue(p, "SendTransaction", frame[p].signedTx, TRUE)
          /\ ret' = [ret EXCEPT ![p] = [tx |-> frame[p].signedTx, err |-> None]]
    /\ UNCHANGED <<intent, boot, frame>>

(* One step of call p. *)
Step(p) ==
    \/ SignerMissing(p)
    \/ SignerPresent(p)
    \/ HeaderByNumber(p)
    \/ ExplicitTipCap(p)
    \/ SuggestGasTipCap(p)
    \/ ResolveFeeCap(p)
    \/ ExplicitGasLimit(p)
    \/ EstimateGas(p)
    \/ ExplicitNonce(p)
    \/ getNonce(p)
    \/ ChainID(p)
    \/ MakeSidecar(p)
    \/ Assemble(p)
    \/ Sign(p)
    \/ ReturnUnsent(p)
    \/ SendTransaction(p)

(***************************************************************************)
(* One call of TransactBlobTx with any arguments.                          *)
(***************************************************************************)
(***************************************************************************)
(* The fakeprover's New: it creates the prover server, starts it in a      *)
(* goroutine, and polls /healthz under backoff.Retry with the policy of    *)
(* backoff.NewExponentialBackOff() until a request succeeds or the policy  *)
(* stops.  Times are in units of a quarter of a second, scaled down.       *)
(***************************************************************************)
InitialInterval == 2       \* backoff.DefaultInitialInterval
MaxInterval == 6           \* backoff.DefaultMaxInterval
MaxElapsedTime == 12       \* backoff.DefaultMaxElapsedTime
MaxRequestTime == 1        \* the longest a GET of /healthz takes

NotCalled ==
    [ pc |-> "idle", srv |-> None, server |-> "notStarted", logged |-> FALSE,
      currentInterval |-> 0, elapsed |-> 0, next |-> 0, requests |-> 0,
      last |-> "none", ret |-> [srv |-> None, err |-> None] ]

(* ExponentialBackOff.incrementCurrentInterval: multiplier 1.5, capped. *)
incrementCurrentInterval(currentInterval) ==
    IF 3 * currentInterval >= 2 * MaxInterval
    THEN MaxInterval
    ELSE (3 * currentInterval) \div 2

(* getRandomValueFromInterval with randomization factor 0.5: any value     *)
(* between half of the interval and one and a half of it.                  *)
RandomValuesFromInterval(currentInterval) ==
    (currentInterval - currentInterval \div 2)..(currentInterval + currentInterval \div 2)

(* New, lines 32-44: server.New fails. *)
NewServerFails ==
    /\ boot.pc = "New"
    /\ boot' = [boot EXCEPT !.pc = "done",
                            !.ret = [srv |-> None, err |-> Some(CapabilityError("server.New"))]]
    /\ UNCHANGED <<intent, pc, frame, ret, calls>>

(* New, lines 32-50 and 53: server.New succeeds, the goroutine of          *)
(* srv.Start is launched, and backoff.Retry resets the policy.             *)
LaunchStart ==
    /\ boot.pc = "New"
    /\ boot' = [boot EXCEPT !.pc = "Retry", !.srv = Some("srv"), !.server = "starting",
                            !.currentInterval = InitialInterval, !.elapsed = 0]
    /\ UNCHANGED <<intent, pc, frame, ret, calls>>

(* The goroutine, line 47: srv.Start listens on the port and blocks. *)
StartListens ==
    /\ boot.server = "starting"
    /\ boot' = [boot EXCEPT !.server = "listening"]
    /\ UNCHANGED <<intent, pc, frame, ret, calls>>

(* The goroutine, lines 47-49: srv.Start returns an error that is not      *)
(* ErrServerClosed, which is logged and kept from New.                     *)
StartFails ==
    /\ boot.server = "starting"
    /\ boot' = [boot EXCEPT !.server = "failed", !.logged = TRUE]
    /\ UNCHANGED <<intent, pc, frame, ret, calls>>

(* The goroutine, line 47: the server New returned is shut down by its     *)
(* owner, srv.Start returns ErrServerClosed, and nothing is logged.        *)
StartClosed ==
    /\ boot.server = "listening"
    /\ boot.pc = "done" /\ ~IsNil(boot.ret.srv)
    /\ boot' = [boot EXCEPT !.server = "closed"]
    /\ UNCHANGED <<intent, pc, frame, ret, calls>>

(* Who answers a GET of /healthz: nobody while srv.Start has not bound the *)
(* port; the server once it listens; whoever holds the port when srv.Start *)
(* failed.                                                                 *)
Answered == boot.server \in {"listening", "failed"}

(* RetryNotifyWithTimer after a failed operation: NextBackOff draws the    *)
(* wait, grows the interval, and stops when the wait would pass            *)
(* MaxElapsedTime; Retry then returns the error of the operation, and New  *)
(* returns it with no server (lines 63-65).                                *)
RetryAfter(kind, elapsed) ==
    \E next \in RandomValuesFromInterval(boot.currentInterval) :
        boot' = [boot EXCEPT
                    !.requests = @ + 1,
                    !.last = kind,
                    !.elapsed = elapsed,
                    !.next = next,
                    !.currentInterval = incrementCurrentInterval(@),
                    !.pc = IF elapsed + next > MaxElapsedTime THEN "done" ELSE "Sleep",
                    !.ret = IF elapsed + next > MaxElapsedTime
                            THEN [srv |-> None, err |-> Some(Err(kind, "/healthz", <<>>))]
                            ELSE @]

(* The operation, lines 54-57: the GET fails. *)
HealthzRequestFails ==
    /\ boot.pc = "Retry"
    /\ \E d \in 0..MaxRequestTime : RetryAfter("RequestFailed", boot.elapsed + d)
    /\ UNCHANGED <<intent, pc, frame, ret, calls>>

(* The operation, lines 58-60: the response is not a success. *)
HealthzInvalidStatus ==
    /\ boot.pc = "Retry"
    /\ Answered
    /\ \E d \in 0..MaxRequestTime : RetryAfter("InvalidStatus", boot.elapsed + d)
    /\ UNCHANGED <<intent, pc, frame, ret, calls>>

(* The operation accepting every response it gets. *)
HealthzSuccess_AnyStatus ==
    /\ boot.pc = "Retry"
    /\ Answered
    /\ \E d \in 0..MaxRequestTime, status \in {"InvalidStatus", "Success"} :
          boot' = [boot EXCEPT !.requests = @ + 1, !.last = status,
                               !.elapsed = @ + d, !.pc = "done",
                               !.ret = [srv |-> boot.srv, err |-> None]]
    /\ UNCHANGED <<intent, pc, frame, ret, calls>>

(* The operation, lines 54-66: the response is a success, Retry returns    *)
(* nil and New returns the server.                                         *)
HealthzSuccess ==
    /\ boot.pc = "Retry"
    /\ Answered
    /\ \E d \in 0..MaxRequestTime :
          boot' = [boot EXCEPT !.requests = @ + 1, !.last = "Success",
                               !.elapsed = @ + d, !.pc = "done",
                               !.ret = [srv |-> boot.srv, err |-> None]]
    /\ UNCHANGED <<intent, pc, frame, ret, calls>>

(* RetryNotifyWithTimer: the timer of the wait fires, and the operation is *)
(* called again.                                                           *)
TimerFires ==
    /\ boot.pc = "Sleep"
    /\ boot' = [boot EXCEPT !.pc = "Retry", !.elapsed = @ + boot.next]
    /\ UNCHANGED <<intent, pc, frame, ret, calls>>

InitNew ==
    /\ intent = [p \in Procs |-> IdleIntent]
    /\ pc = [p \in Procs |-> "idle"]
    /\ frame = [p \in Procs |-> NoFrame]
    /\ ret = [p \in Procs |-> NoResult]
    /\ calls = [p \in Procs |-> <<>>]
    /\ boot = [NotCalled EXCEPT !.pc = "New"]

NextNew ==
    \/ NewServerFails
    \/ LaunchStart
    \/ StartListens
    \/ StartFails
    \/ StartClosed
    \/ HealthzRequestFails
    \/ HealthzInvalidStatus
    \/ HealthzSuccess
    \/ TimerFires

SpecNew == InitNew /\ [][NextNew]_vars

(* New runs on, and so does the goroutine of srv.Start. *)
FairSpecNew == SpecNew /\ WF_vars(NextNew)

Init ==
    /\ \E i \in Intents : intent = [p \in Procs |-> IF p = 1 THEN i ELSE IdleIntent]
    /\ pc = [p \in Procs |-> IF p = 1 THEN "CheckSigner" ELSE "idle"]
    /\ frame = [p \in Procs |-> NoFrame]
    /\ ret = [p \in Procs |-> NoResult]
    /\ calls = [p \in Procs |-> <<>>]
    /\ boot = NotCalled

Next ==
    \/ SignerMissing(1)
    \/ SignerPresent(1)
    \/ HeaderByNumber(1)
    \/ ExplicitTipCap(1)
    \/ SuggestGasTipCap(1)
    \/ ResolveFeeCap(1)
    \/ ExplicitGasLimit(1)
    \/ EstimateGas(1)
    \/ ExplicitNonce(1)
    \/ getNonce(1)
    \/ ChainID(1)
    \/ MakeSidecar(1)
    \/ Assemble(1)
    \/ Sign(1)
    \/ ReturnUnsent(1)
    \/ SendTransaction(1)

Spec == Init /\ [][Next]_vars

(* Every call that can take a step takes one: a call blocks only in a call *)
(* of the client or of the signer, and those return.                       *)
FairSpec == Spec /\ WF_vars(Next)


(***************************************************************************)
(* Two concurrent calls of TransactBlobTx for the same sender on the same  *)
(* client.  The node counts the transactions of the sender it has          *)
(* accepted, and PendingNonceAt answers that count.                        *)
(***************************************************************************)
ConcurrentIntents ==
    { [ Signer |-> c[1], From |-> "from", GasTipCap |-> c[2], GasFeeCap |-> c[3],
        GasLimit |-> c[4], Nonce |-> c[5], Value |-> None, NoSend |-> c[6],
        contract |-> Some("to"), input |-> "input",
        blobData |-> [len |-> 1000, canonical |-> TRUE] ] :
      c \in { <<FALSE, None,    None,     0,     None,                 FALSE>>,
              <<TRUE,  None,    None,     0,     None,                 FALSE>>,
              <<TRUE,  Some(5), Some(10), 21000, Some(42),             FALSE>>,
              <<TRUE,  Some(5), Some(10), 21000, Some(Uint64Mod + 42), FALSE>>,
              <<TRUE,  Some(5), None,     21000, None,                 TRUE>> } }

(* The pending nonce of the sender at the node: the transactions of the    *)
(* sender that SendTransaction has handed to the node.                     *)
PendingNonceOfSender ==
    Cardinality({ q \in Procs :
                    \E i \in 1..Len(calls[q]) :
                        calls[q][i].op = "SendTransaction" /\ calls[q][i].ok })

(* getNonce on a client whose node answers its pending nonce. *)
getNonceAtNode(p) ==
    /\ getNonce(p)
    /\ calls'[p][Len(calls'[p])].ok => frame'[p].nonce = Some(PendingNonceOfSender)

InitConcurrent ==
    /\ intent \in [Procs -> ConcurrentIntents]
    /\ pc = [p \in Procs |-> "CheckSigner"]
    /\ frame = [p \in Procs |-> NoFrame]
    /\ ret = [p \in Procs |-> NoResult]
    /\ calls = [p \in Procs |-> <<>>]
    /\ boot = NotCalled

NextConcurrent ==
    \E p \in Procs :
        \/ SignerMissing(p)
        \/ SignerPresent(p)
        \/ HeaderByNumber(p)
        \/ ExplicitTipCap(p)
        \/ SuggestGasTipCap(p)
        \/ ResolveFeeCap(p)
        \/ ExplicitGasLimit(p)
        \/ EstimateGas(p)
        \/ ExplicitNonce(p)
        \/ getNonceAtNode(p)
        \/ ChainID(p)
        \/ MakeSidecar(p)
        \/ Assemble(p)
        \/ Sign(p)
        \/ ReturnUnsent(p)
        \/ SendTransaction(p)

SpecConcurrent == InitConcurrent /\ [][NextConcurrent]_vars

(***************************************************************************)
(* Properties.                                                             *)
(***************************************************************************)
Last(seq) == seq[Len(seq)]

Ops(p) == {calls[p][i].op : i \in 1..Len(calls[p])}

Count(p, op) == Cardinality({i \in 1..Len(calls[p]) : calls[p][i].op = op})

Started(p) == pc[p] # "idle"

Returned(p) == pc[p] = "done"

Failed(p) == Returned(p) /\ ~IsNil(ret[p].err)

Succeeded(p) == Returned(p) /\ IsNil(ret[p].err)

(* C1: a call whose options carry no signer issues no call at all, on the  *)
(* client or on the signer, and returns no transaction and the NoSigner    *)
(* error, whatever its other arguments are.                                *)
C1_NoSignerFailsBeforeAnyCall ==
    \A p \in Procs :
        (Started(p) /\ ~intent[p].Signer) =>
            /\ calls[p] = <<>>
            /\ pc[p] \in {"CheckSigner", "done"}
            /\ Returned(p) => ret[p] = [tx |-> None, err |-> Some(NoSigner)]

C1_Witness ==
    /\ Returned(1)
    /\ ~intent[1].Signer
    /\ intent[1].GasTipCap = Some(10)
    /\ intent[1].GasFeeCap = Some(5)
    /\ intent[1].blobData.len > BlobBytes

SendFailed(p) ==
    /\ Returned(p)
    /\ Len(calls[p]) > 0
    /\ Last(calls[p]).op = "SendTransaction"
    /\ ~Last(calls[p]).ok

(* C2 as stated: when SendTransaction fails after a successful signature,  *)
(* the call returns the error of the submission and, with it, the signed   *)
(* transaction.                                                            *)
C2_SignedTxReturnedOnSendFailure ==
    \A p \in Procs :
        SendFailed(p) =>
            /\ ret[p].err = Some(CapabilityError("SendTransaction"))
            /\ ~IsNil(ret[p].tx)
            /\ ret[p].tx = frame[p].signedTx

(* C2 amended: when the signature succeeded, sending is not suppressed and *)
(* SendTransaction fails, the call returns the error of the submission and *)
(* no transaction.                                                         *)
C2_NothingReturnedOnSendFailure ==
    \A p \in Procs :
        SendFailed(p) =>
            /\ ~intent[p].NoSend
            /\ ~IsNil(frame[p].signedTx)
            /\ Len(calls[p]) > 1
            /\ calls[p][Len(calls[p]) - 1].op = "Signer"
            /\ calls[p][Len(calls[p]) - 1].ok
            /\ ret[p].err = Some(CapabilityError("SendTransaction"))
            /\ IsNil(ret[p].tx)

C2_Witness == SendFailed(1) /\ Val(frame[1].signedTx).signed

(* C3 as stated: whenever a call has assembled its transaction, the fee    *)
(* cap of the transaction is at least its tip cap.                         *)
C3_FeeCapAtLeastTipCap ==
    \A p \in Procs :
        ~IsNil(frame[p].rawTx) =>
            Val(frame[p].rawTx).GasFeeCap >= Val(frame[p].rawTx).GasTipCap

ExplicitBadOrder(p) ==
    /\ ~IsNil(intent[p].GasTipCap)
    /\ ~IsNil(intent[p].GasFeeCap)
    /\ Val(intent[p].GasFeeCap) < Val(intent[p].GasTipCap)

(* C4 as stated: a call with a signer and an explicit fee cap below the    *)
(* explicit tip cap always ends with the InvalidFeeOrdering error, which   *)
(* carries the two values.                                                 *)
C4_AlwaysInvalidFeeOrdering ==
    \A p \in Procs :
        (intent[p].Signer /\ ExplicitBadOrder(p) /\ Returned(p)) =>
            /\ ~IsNil(ret[p].err)
            /\ Val(ret[p].err).kind = "InvalidFeeOrdering"
            /\ Val(ret[p].err).args = <<Val(intent[p].GasFeeCap), Val(intent[p].GasTipCap)>>

(* C4 amended: a call with an explicit fee cap below the explicit tip cap  *)
(* never gets past the comparison of the caps and never returns a          *)
(* transaction; once its header is fetched it ends with InvalidFeeOrdering, *)
(* which carries the fee cap and the tip cap, and before that only with    *)
(* NoSigner or the error of HeaderByNumber.                                *)
C4_InvalidFeeOrderingOnceHeaderFetched ==
    \A p \in Procs :
        (Started(p) /\ ExplicitBadOrder(p)) =>
            /\ pc[p] \in {"CheckSigner", "HeaderByNumber", "TipCap", "FeeCap", "done"}
            /\ Returned(p) =>
                /\ IsNil(ret[p].tx)
                /\ ~IsNil(ret[p].err)
                /\ IF ~IsNil(frame[p].header)
                   THEN /\ Val(ret[p].err).kind = "InvalidFeeOrdering"
                        /\ Val(ret[p].err).args =
                              <<Val(intent[p].GasFeeCap), Val(intent[p].GasTipCap)>>
                   ELSE Val(ret[p].err).kind \in {"NoSigner", "HeaderByNumber"}

C4_Witness ==
    /\ Returned(1)
    /\ intent[1].GasTipCap = Some(10)
    /\ intent[1].GasFeeCap = Some(5)
    /\ Val(ret[1].err).kind = "InvalidFeeOrdering"
    /\ Val(ret[1].err).args = <<5, 10>>


ErrKind(p) == Val(ret[p].err).kind

(* C5: a call that ends with InvalidFeeOrdering has issued neither         *)
(* EstimateGas, PendingNonceAt, ChainID, the signer nor SendTransaction    *)
(* and has built no sidecar; and every EstimateGas, and every sidecar, of  *)
(* a call comes after a comparison of the caps that passed: the message of *)
(* EstimateGas carries a fee cap that is at least its tip cap.             *)
C5_FeeOrderingBeforeGasAndSidecar ==
    \A p \in Procs :
        /\ (Failed(p) /\ ErrKind(p) = "InvalidFeeOrdering") =>
              /\ Ops(p) \subseteq {"HeaderByNumber", "SuggestGasTipCap"}
              /\ IsNil(frame[p].gasLimit)
              /\ IsNil(frame[p].sidecar)
        /\ \A i \in 1..Len(calls[p]) :
              calls[p][i].op = "EstimateGas" =>
                  /\ ~IsNil(calls[p][i].arg.GasFeeCap)
                  /\ ~IsNil(calls[p][i].arg.GasTipCap)
                  /\ Val(calls[p][i].arg.GasFeeCap) >= Val(calls[p][i].arg.GasTipCap)
        /\ ~IsNil(frame[p].sidecar) =>
              /\ ~IsNil(frame[p].gasFeeCap)
              /\ Val(frame[p].gasFeeCap) >= Val(frame[p].gasTipCap)

C5_Witness ==
    /\ Failed(1)
    /\ ErrKind(1) = "InvalidFeeOrdering"
    /\ "SuggestGasTipCap" \in Ops(1)
    /\ intent[1].GasLimit = 0

(* C6: for every payload longer than BlobBytes MakeSidecarWithSingleBlob   *)
(* returns no sidecar and the PayloadTooLarge error, and it issues no call *)
(* on the client: when a call ends with that error, the last call it       *)
(* issued is the ChainID that came before the sidecar was to be made, and  *)
(* the call never gets to assemble, sign or send.                          *)
C6_PayloadTooLargeWithoutNetworkCall ==
    /\ \A d \in Payloads :
          d.len > BlobBytes =>
              /\ IsNil(MakeSidecarWithSingleBlob(d).sidecar)
              /\ MakeSidecarWithSingleBlob(d).err = Some(PayloadTooLarge)
    /\ \A p \in Procs :
          (Started(p) /\ intent[p].blobData.len > BlobBytes) =>
              /\ IsNil(frame[p].sidecar)
              /\ pc[p] \notin {"Assemble", "Sign", "Send", "panic"}
              /\ (Returned(p) /\ ~IsNil(frame[p].chainID)) =>
                    /\ ret[p] = [tx |-> None, err |-> Some(PayloadTooLarge)]
                    /\ Last(calls[p]) = [op |-> "ChainID", arg |-> None, ok |-> TRUE]
              /\ (Failed(p) /\ ErrKind(p) = "PayloadTooLarge") => ~IsNil(frame[p].chainID)

C6_Witness ==
    /\ Failed(1)
    /\ ErrKind(1) = "PayloadTooLarge"
    /\ intent[1].blobData.len = BlobBytes + 1

PreSignedFailures ==
    { "NoSigner", "HeaderByNumber", "SuggestGasTipCap", "InvalidFeeOrdering",
      "EstimateGas", "PendingNonceAt", "ChainID", "PayloadTooLarge", "kzg4844",
      "Signer" }

(* C7: a call that fails before it has a signed transaction (no signer,    *)
(* header, tip, order of the caps, gas estimate, nonce, chain id, sidecar  *)
(* or the signature itself) returns no transaction with its error and has  *)
(* not issued SendTransaction; a transaction that is returned is always    *)
(* the signed one.                                                         *)
C7_NoPartialResult ==
    \A p \in Procs :
        /\ (Failed(p) /\ ErrKind(p) \in PreSignedFailures) =>
              /\ IsNil(frame[p].signedTx)
              /\ IsNil(ret[p].tx)
              /\ "SendTransaction" \notin Ops(p)
        /\ (Failed(p) /\ IsNil(frame[p].signedTx)) => ErrKind(p) \in PreSignedFailures
        /\ IsNil(frame[p].signedTx) => "SendTransaction" \notin Ops(p)
        /\ ~IsNil(ret[p].tx) =>
              /\ ret[p].tx = frame[p].signedTx
              /\ Val(ret[p].tx).signed

C7_Witness ==
    /\ Failed(1)
    /\ ErrKind(1) = "Signer"
    /\ ~IsNil(frame[1].rawTx)

(* C8 as stated: with an explicit nonce no PendingNonceAt is issued and    *)
(* the assembled transaction carries that nonce as given; without one the  *)
(* call issues PendingNonceAt once, for the sender, fails when it fails    *)
(* and otherwise assembles with the nonce it returned.                     *)
C8_NonceVerbatimOrPending ==
    \A p \in Procs :
        IF ~IsNil(intent[p].Nonce)
        THEN /\ "PendingNonceAt" \notin Ops(p)
             /\ ~IsNil(frame[p].rawTx) => Val(frame[p].rawTx).Nonce = Val(intent[p].Nonce)
        ELSE /\ Count(p, "PendingNonceAt") <= 1
             /\ ~IsNil(frame[p].rawTx) =>
                   /\ [op |-> "PendingNonceAt", arg |-> intent[p].From, ok |-> TRUE]
                         \in {calls[p][i] : i \in 1..Len(calls[p])}
                   /\ Val(frame[p].rawTx).Nonce = Val(frame[p].nonce)
             /\ (Len(calls[p]) > 0 /\ Last(calls[p]).op = "PendingNonceAt"
                                   /\ ~Last(calls[p]).ok) =>
                   /\ Failed(p)
                   /\ IsNil(frame[p].rawTx)

(* C9: with opts.NoSend no SendTransaction is ever issued and a successful *)
(* call returns the signed transaction right after the signer; without it  *)
(* a successful call has issued SendTransaction exactly once, as the call  *)
(* that follows a successful signer call, with the transaction the signer  *)
(* returned, which is also what the call returns.                          *)
C9_SendUnlessNoSend ==
    \A p \in Procs :
        /\ (Started(p) /\ intent[p].NoSend) => "SendTransaction" \notin Ops(p)
        /\ Succeeded(p) =>
              /\ ~IsNil(ret[p].tx)
              /\ ret[p].tx = frame[p].signedTx
              /\ Val(ret[p].tx).signed
              /\ Len(calls[p]) >= 2
              /\ LET n       == Len(calls[p])
                     signing == IF intent[p].NoSend THEN calls[p][n] ELSE calls[p][n - 1]
                 IN  /\ signing.op = "Signer"
                     /\ signing.ok
                     /\ frame[p].signedTx = Some(WithSignature(Val(signing.arg)))
                     /\ ~intent[p].NoSend =>
                           /\ Count(p, "SendTransaction") = 1
                           /\ calls[p][n] = [op |-> "SendTransaction",
                                             arg |-> frame[p].signedTx, ok |-> TRUE]

C9_Witness ==
    /\ Succeeded(1)
    /\ intent[1].NoSend
    /\ Val(ret[1].tx).signed

(* The state of the construction a call is in. *)
StateOf(p) ==
    CASE pc[p] = "CheckSigner"                          -> "Start"
      [] pc[p] \in {"HeaderByNumber", "TipCap", "FeeCap"} -> "SignerChecked"
      [] pc[p] \in {"GasLimit", "Nonce"}                -> "FeeResolved"
      [] pc[p] \in {"ChainID", "Sidecar"}               -> "NonceResolved"
      [] pc[p] = "Assemble"                             -> "SidecarBuilt"
      [] pc[p] = "Sign"                                 -> "Assembled"
      [] pc[p] = "Send"                                 -> "Signed"
      [] pc[p] = "done" /\ ~IsNil(ret[p].err)           -> "Failed"
      [] pc[p] = "done" /\ IsNil(ret[p].err) /\ intent[p].NoSend  -> "ReturnedUnsent"
      [] pc[p] = "done" /\ IsNil(ret[p].err) /\ ~intent[p].NoSend -> "Submitted"
      [] pc[p] = "panic"                                -> "Panicked"
      [] OTHER                                          -> "Idle"

Ended(p) == pc[p] \in {"done", "panic"}

(* C10 as stated, its end: a call that has ended, and takes no further     *)
(* step, is in one of the states Submitted, ReturnedUnsent and Failed.     *)
C10_EndsSubmittedUnsentOrFailed ==
    \A p \in Procs :
        Ended(p) => StateOf(p) \in {"Submitted", "ReturnedUnsent", "Failed"}


StateOrder ==
    << "Start", "SignerChecked", "FeeResolved", "NonceResolved", "SidecarBuilt",
       "Assembled", "Signed" >>

Follows(a, b) ==
    \/ \E i \in 1..(Len(StateOrder) - 1) : a = StateOrder[i] /\ b = StateOrder[i + 1]
    \/ a = "Signed" /\ b \in {"Submitted", "ReturnedUnsent"}
    \/ a \in {StateOrder[i] : i \in 1..Len(StateOrder)} /\ b = "Failed"

(* C10, the order of the states alone: apart from a panic, every step of a *)
(* call keeps its state or moves it to the next one of the order or to     *)
(* Failed, and a call in Submitted, ReturnedUnsent or Failed takes no step. *)
C10_StatesInOrder ==
    [][\A p \in Procs :
          \/ StateOf(p)' = StateOf(p)
          \/ Follows(StateOf(p), StateOf(p)')
          \/ StateOf(p)' = "Panicked"]_vars

Capabilities ==
    { "HeaderByNumber", "SuggestGasTipCap", "EstimateGas", "PendingNonceAt", "ChainID",
      "Signer", "SendTransaction" }

(* C11: within a call each of HeaderByNumber, SuggestGasTipCap,            *)
(* EstimateGas, PendingNonceAt, ChainID, the signer and SendTransaction is *)
(* called at most once; once the signer test has passed and the header     *)
(* step is over, the header was fetched exactly once; and a call that      *)
(* failed is the last call issued: the call of TransactBlobTx has returned *)
(* with an error and issues nothing more.                                  *)
C11_NoRetryFailureIsTerminal ==
    \A p \in Procs :
        /\ Ops(p) \subseteq Capabilities
        /\ \A op \in Capabilities : Count(p, op) <= 1
        /\ (Started(p) /\ intent[p].Signer /\ pc[p] \notin {"CheckSigner", "HeaderByNumber"}) =>
              /\ Count(p, "HeaderByNumber") = 1
              /\ calls[p][1].op = "HeaderByNumber"
        /\ \A i \in 1..Len(calls[p]) :
              ~calls[p][i].ok =>
                  /\ i = Len(calls[p])
                  /\ Failed(p)
                  /\ ErrKind(p) = calls[p][i].op

C11_Witness ==
    /\ Failed(1)
    /\ Len(calls[1]) = 3
    /\ calls[1][3].op = "EstimateGas"
    /\ ~calls[1][3].ok
    /\ calls[1][2].op = "SuggestGasTipCap"

NoOverrides(p) ==
    /\ IsNil(intent[p].GasTipCap)
    /\ IsNil(intent[p].GasFeeCap)
    /\ intent[p].GasLimit = 0

(* C14: a call without tip cap, fee cap and gas limit of its own, whose    *)
(* transaction is assembled, has asked SuggestGasTipCap and EstimateGas,   *)
(* and the transaction has the suggested tip cap, a fee cap of that tip    *)
(* cap plus twice the base fee of the fetched header, the estimated gas    *)
(* limit and exactly one blob hash.                                        *)
C14_DefaultsFromChain ==
    \A p \in Procs :
        (NoOverrides(p) /\ ~IsNil(frame[p].rawTx)) =>
            LET tx == Val(frame[p].rawTx)
            IN  /\ Count(p, "SuggestGasTipCap") = 1
                /\ Count(p, "EstimateGas") = 1
                /\ tx.GasTipCap = Val(frame[p].gasTipCap)
                /\ tx.GasTipCap \in SuggestedTips
                /\ tx.GasFeeCap = tx.GasTipCap + 2 * Val(frame[p].header).BaseFee
                /\ tx.Gas = Val(frame[p].gasLimit)
                /\ tx.Gas \in GasEstimates
                /\ Len(tx.BlobHashes) = 1
                /\ intent[p].blobData.len <= BlobBytes

C14_Witness ==
    /\ NoOverrides(1)
    /\ ~IsNil(frame[1].rawTx)
    /\ intent[1].blobData.len = 1000
    /\ Val(frame[1].header).BaseFee = 1
    /\ Val(frame[1].rawTx).GasTipCap = 1
    /\ Val(frame[1].rawTx).GasFeeCap = 3

(* C15 as stated: SuggestGasTipCap is called, once, only by a call without *)
(* a tip cap of its own, and EstimateGas, once, only by a call without a   *)
(* gas limit of its own; a call that has one never calls the capability,   *)
(* and its assembled transaction carries the given value unchanged.        *)
C15_OverrideSuppressesRead ==
    \A p \in Procs :
        /\ IF IsNil(intent[p].GasTipCap)
           THEN Count(p, "SuggestGasTipCap") <= 1
           ELSE /\ "SuggestGasTipCap" \notin Ops(p)
                /\ ~IsNil(frame[p].rawTx) =>
                      Val(frame[p].rawTx).GasTipCap = Val(intent[p].GasTipCap)
        /\ IF intent[p].GasLimit = 0
           THEN Count(p, "EstimateGas") <= 1
           ELSE /\ "EstimateGas" \notin Ops(p)
                /\ ~IsNil(frame[p].rawTx) => Val(frame[p].rawTx).Gas = intent[p].GasLimit

(* CalcBlobFee of 100066 and of every excess blob gas a header may carry. *)
BlobFeeOf ==
    [e \in {100066} \cup {Val(h.ExcessBlobGas) : h \in {g \in Headers : ~IsNil(g.ExcessBlobGas)}}
        |-> CalcBlobFee(e)]

(* C16: the blob fee cap of an assembled transaction is CalcBlobFee of the *)
(* excess blob gas of the fetched header when the header has one, and of   *)
(* 100066 otherwise, whatever the caps, the nonce and the payload are.     *)
C16_BlobFeeCapFromExcessBlobGas ==
    /\ DefaultExcessBlobGas = 100066
    /\ \A p \in Procs :
          ~IsNil(frame[p].rawTx) =>
              LET excess == Val(frame[p].header).ExcessBlobGas
              IN  Val(frame[p].rawTx).BlobFeeCap =
                      IF IsNil(excess) THEN BlobFeeOf[100066] ELSE BlobFeeOf[Val(excess)]

C16_Witness ==
    /\ ~IsNil(frame[1].rawTx)
    /\ ~IsNil(Val(frame[1].header).ExcessBlobGas)
    /\ Val(frame[1].rawTx).BlobFeeCap = 20
    /\ BlobFeeOf[100066] = 1
    /\ intent[1].GasTipCap = Some(5)
    /\ intent[1].Nonce = Some(42)

(* kzg4844.VerifyBlobProof: the commitment is the one of the blob and the  *)
(* proof the one of the blob and the commitment.                           *)
VerifyBlobProof(blob, commitment, proof) ==
    /\ commitment = [commitmentOf |-> blob]
    /\ proof = [proofOf |-> blob, for |-> commitment]

SidecarStepOver(p) ==
    /\ ~IsNil(frame[p].chainID)
    /\ pc[p] # "Sidecar"

WellFormedSidecar(p) ==
    /\ ~IsNil(frame[p].sidecar)
    /\ LET sidecar == Val(frame[p].sidecar)
       IN  /\ Len(sidecar.Blobs) = 1
           /\ Len(sidecar.Commitments) = 1
           /\ Len(sidecar.Proofs) = 1
           /\ sidecar.Blobs[1].payloadLen = intent[p].blobData.len
           /\ sidecar.Blobs[1].size = BlobBytes
           /\ VerifyBlobProof(sidecar.Blobs[1], sidecar.Commitments[1], sidecar.Proofs[1])

(* C17 as stated: for every payload of at most BlobBytes bytes the sidecar *)
(* is built, with one blob that is the payload padded with zeroes to       *)
(* BlobBytes, one commitment and one proof, which verify.                  *)
C17_EveryPayloadWithinCapacityBuilds ==
    \A p \in Procs :
        (SidecarStepOver(p) /\ intent[p].blobData.len <= BlobBytes) => WellFormedSidecar(p)

(* C17 amended: for every payload of at most BlobBytes bytes whose field   *)
(* elements are all canonical the sidecar is built, with one blob that is  *)
(* the payload padded with zeroes to BlobBytes, one commitment and one     *)
(* proof, which verify; for a payload with a field element that is not     *)
(* canonical the call fails with the error of the kzg library and no       *)
(* sidecar.                                                                *)
C17_CanonicalPayloadWithinCapacityBuilds ==
    \A p \in Procs :
        (SidecarStepOver(p) /\ intent[p].blobData.len <= BlobBytes) =>
            IF intent[p].blobData.canonical
            THEN WellFormedSidecar(p)
            ELSE /\ IsNil(frame[p].sidecar)
                 /\ Failed(p)
                 /\ ErrKind(p) = "kzg4844"

C17_Witness ==
    /\ WellFormedSidecar(1)
    /\ intent[1].blobData.len = BlobBytes
    /\ SidecarStepOver(1)

(* C18 as stated: the PayloadTooLarge error of a call carries the length   *)
(* of its payload.                                                         *)
C18_PayloadTooLargeCarriesLength ==
    \A p \in Procs :
        (Failed(p) /\ ErrKind(p) = "PayloadTooLarge") =>
            Val(ret[p].err).args = <<intent[p].blobData.len>>

(* C18 amended: the PayloadTooLarge error of a call is the fixed text      *)
(* "data is bigger than 128k" and carries no length, so that too long      *)
(* payloads of different lengths give the same error.                      *)
C18_PayloadTooLargeIsFixedText ==
    \A p \in Procs :
        (Failed(p) /\ ErrKind(p) = "PayloadTooLarge") =>
            /\ intent[p].blobData.len > BlobBytes
            /\ Val(ret[p].err).text = "data is bigger than 128k"
            /\ Val(ret[p].err).args = <<>>

C18_Witness ==
    /\ Failed(1)
    /\ ErrKind(1) = "PayloadTooLarge"
    /\ intent[1].blobData.len = 2 * BlobBytes

IndexOf(p, op) == CHOOSE i \in 1..Len(calls[p]) : calls[p][i].op = op

(* C19: the signer is called only with the transaction assembled from a    *)
(* fetched header, caps that passed the comparison, a gas limit, a nonce,  *)
(* a chain id and a sidecar, after HeaderByNumber and ChainID succeeded;   *)
(* SendTransaction is called only with the transaction a successful        *)
(* signer call of the same call returned, as the call right after it; and  *)
(* a call whose payload is longer than BlobBytes calls neither.            *)
C19_SignAfterAssemblySendAfterSign ==
    \A p \in Procs :
        /\ "Signer" \in Ops(p) =>
              /\ ~IsNil(frame[p].header)
              /\ ~IsNil(frame[p].gasTipCap)
              /\ ~IsNil(frame[p].gasFeeCap)
              /\ Val(frame[p].gasFeeCap) >= Val(frame[p].gasTipCap)
              /\ ~IsNil(frame[p].gasLimit)
              /\ ~IsNil(frame[p].nonce)
              /\ ~IsNil(frame[p].chainID)
              /\ WellFormedSidecar(p)
              /\ ~IsNil(frame[p].rawTx)
              /\ calls[p][IndexOf(p, "Signer")].arg = frame[p].rawTx
              /\ Val(frame[p].rawTx).Sidecar = Val(frame[p].sidecar)
              /\ ~Val(frame[p].rawTx).signed
              /\ calls[p][1] = [op |-> "HeaderByNumber", arg |-> None, ok |-> TRUE]
              /\ calls[p][IndexOf(p, "Signer") - 1] = [op |-> "ChainID", arg |-> None, ok |-> TRUE]
        /\ "SendTransaction" \in Ops(p) =>
              LET i == IndexOf(p, "SendTransaction")
              IN  /\ i > 1
                  /\ calls[p][i - 1].op = "Signer"
                  /\ calls[p][i - 1].ok
                  /\ ~IsNil(calls[p][i].arg)
                  /\ Val(calls[p][i].arg).signed
                  /\ calls[p][i].arg = frame[p].signedTx
                  /\ calls[p][i].arg = Some(WithSignature(Val(calls[p][i - 1].arg)))
        /\ (Started(p) /\ intent[p].blobData.len > BlobBytes) =>
              /\ "Signer" \notin Ops(p)
              /\ "SendTransaction" \notin Ops(p)

C19_Witness ==
    /\ "SendTransaction" \in Ops(1)
    /\ Last(calls[1]).ok
    /\ Succeeded(1)

(***************************************************************************)
(* Concurrent calls: the nonce (C12) and the options (C13), checked under  *)
(* SpecConcurrent.                                                         *)
(***************************************************************************)
AutoNonce(p) == intent[p].Signer /\ IsNil(intent[p].Nonce) /\ ~intent[p].NoSend

Submitted(p) == Succeeded(p) /\ ~intent[p].NoSend

(* The race of C12, a state SpecConcurrent reaches: two calls without an   *)
(* explicit nonce have both read the same pending nonce, and both have     *)
(* ended with a signed and submitted transaction of that nonce.            *)
C12_SameNonceSubmittedTwice ==
    /\ AutoNonce(1) /\ AutoNonce(2)
    /\ Submitted(1) /\ Submitted(2)
    /\ "PendingNonceAt" \in Ops(1) /\ "PendingNonceAt" \in Ops(2)
    /\ Val(ret[1].tx).signed /\ Val(ret[2].tx).signed
    /\ Val(ret[1].tx).Nonce = Val(ret[2].tx).Nonce

(* C12 as stated, its second half: two calls with explicit nonces that     *)
(* differ never carry the same nonce in their transactions.                *)
C12_ExplicitDistinctNoncesNeverCollide ==
    \A p, q \in Procs :
        ( /\ p # q
          /\ ~IsNil(intent[p].Nonce) /\ ~IsNil(intent[q].Nonce)
          /\ Val(intent[p].Nonce) # Val(intent[q].Nonce)
          /\ ~IsNil(frame[p].rawTx) /\ ~IsNil(frame[q].rawTx) ) =>
            Val(frame[p].rawTx).Nonce # Val(frame[q].rawTx).Nonce

(* What the capabilities answered to a call: its calls with their          *)
(* outcomes, and the values they returned.                                 *)
Responses(p) ==
    [ outcomes  |-> [i \in 1..Len(calls[p]) |-> <<calls[p][i].op, calls[p][i].ok>>],
      header    |-> frame[p].header,
      gasTipCap |-> frame[p].gasTipCap,
      gasLimit  |-> frame[p].gasLimit,
      nonce     |-> frame[p].nonce,
      chainID   |-> frame[p].chainID ]

(* Two calls of the same options that got the same answers end the same way. *)
Determined ==
    \A p, q \in Procs :
        ( /\ Ended(p) /\ Ended(q)
          /\ intent[p] = intent[q]
          /\ Responses(p) = Responses(q) ) =>
            /\ pc[p] = pc[q]
            /\ ret[p] = ret[q]
            /\ frame[p] = frame[q]

(* C13: no step of a call changes the options of any call, a step of one   *)
(* call changes nothing of the other call, and the way a call ends is      *)
(* determined by its own options and the answers it got, under every       *)
(* interleaving of two concurrent calls.                                   *)
C13_IntentReadOnlyCallsIndependent ==
    [][ /\ intent' = intent
        /\ \E p \in Procs :
              \A q \in Procs \ {p} :
                  /\ pc'[q] = pc[q]
                  /\ frame'[q] = frame[q]
                  /\ ret'[q] = ret[q]
                  /\ calls'[q] = calls[q]
        /\ Determined' ]_vars

(* Two interleaved calls of the same options, with an explicit tip cap and *)
(* a default fee cap, that got the same answers and have both returned a   *)
(* transaction, while the options still hold the tip cap given.            *)
C13_Witness ==
    /\ intent[1] = intent[2]
    /\ intent[1].GasTipCap = Some(5) /\ IsNil(intent[1].GasFeeCap)
    /\ Responses(1) = Responses(2)
    /\ Succeeded(1) /\ Succeeded(2)
    /\ ~IsNil(ret[1].tx) /\ ret[1].tx = ret[2].tx

(***************************************************************************)
(* The fakeprover's New (C20), checked under SpecNew.                      *)
(***************************************************************************)
NewReturned == boot.pc = "done"

HealthzFailures == {"RequestFailed", "InvalidStatus"}

StartLaunched == boot.server # "notStarted"

(* C20: New returns the server only after a GET of /healthz that got a     *)
(* success, and then without an error; New waits only after a GET that     *)
(* failed or got no success, for a wait the backoff policy drew, and then  *)
(* asks again; New gives up only when the policy stops, and then returns   *)
(* the error of the last GET and no server, though srv.Start was launched. *)
C20_ServerOnlyAfterHealthzSuccess ==
    /\ (NewReturned /\ ~IsNil(boot.ret.srv)) =>
          /\ IsNil(boot.ret.err)
          /\ boot.ret.srv = boot.srv
          /\ boot.requests >= 1
          /\ boot.last = "Success"
    /\ (NewReturned /\ IsNil(boot.ret.srv)) =>
          /\ ~IsNil(boot.ret.err)
          /\ \/ /\ Val(boot.ret.err).kind = "server.New"
                /\ ~StartLaunched
                /\ boot.requests = 0
             \/ /\ Val(boot.ret.err).kind = boot.last
                /\ boot.last \in HealthzFailures
                /\ StartLaunched
                /\ boot.elapsed + boot.next > MaxElapsedTime
    /\ boot.pc = "Sleep" =>
          /\ boot.last \in HealthzFailures
          /\ boot.next >= 1
          /\ boot.elapsed + boot.next <= MaxElapsedTime
    /\ boot.pc = "Retry" =>
          /\ boot.last \in HealthzFailures \cup {"none"}
          /\ boot.last = "none" <=> boot.requests = 0
          /\ boot.elapsed <= MaxElapsedTime

(* New has given up after more than one request and returned an error and  *)
(* no server, while the server it started listens.                         *)
C20_Witness ==
    /\ NewReturned
    /\ IsNil(boot.ret.srv) /\ ~IsNil(boot.ret.err)
    /\ boot.requests >= 2
    /\ boot.last = "InvalidStatus"
    /\ boot.server = "listening"

(* New has returned the server after requests that failed. *)
C20_ServerReturnedAfterRetries ==
    /\ NewReturned
    /\ ~IsNil(boot.ret.srv)
    /\ boot.requests >= 3

(* Every wait ends in another request, and New returns. *)
C20_WaitLeadsToRequest ==
    /\ (boot.pc = "Sleep") ~> (boot.pc = "Retry")
    /\ <>NewReturned

====
